---- MODULE Spec2Model ----
(***************************************************************************)
(* Batch orchestration state machine of the upscaler front end             *)
(* (src/App.tsx): the item list `files`, the shared `globalSettings`, the  *)
(* `isProcessingBatch` flag and the asynchronous `processBatch` loop.      *)
(*                                                                         *)
(* Scheduling model.  The application runs on one JavaScript thread.  A    *)
(* handler runs to completion or to its next `await`; every action below   *)
(* is one such run.  React commits the state updates of a user event       *)
(* before it dispatches the next user event, so a handler's closure reads  *)
(* the state left by the previous action.  A closure that lives across an  *)
(* `await` (the loop of processBatch) keeps the values it captured when    *)
(* the handler was invoked: these are the variables filesToProcess and cur.*)
(*                                                                         *)
(* Item ids come from Math.random() and are not compared with the ids in   *)
(* use, so a draw may equal any id: handleFiles picks each id freely in    *)
(* Ids.  updateFileSettings has no caller (ImageCard receives              *)
(* onUpdateSettings and never invokes it), so it is not an action.         *)
(*                                                                         *)
(* Specifications.  The handlers fall into groups that do not read each    *)
(* other's variables, and each specification follows the groups its        *)
(* properties are about, leaving the other variables as they are:          *)
(*   Spec        the item list, the settings and the batch loop;           *)
(*   SpecLive    Spec with every processImage call settling;               *)
(*   SpecAsync   the list, the batch loop and the analysis calls of the    *)
(*               cards, without the settings updates;                      *)
(*   SpecUpdates every handler that writes an item, on a list that only    *)
(*               grows (no removal);                                       *)
(*   SpecInputs  both submission paths with files of any type and          *)
(*               settings updates of any value;                            *)
(*   SpecExport  downloadAllZip, the removals, the batch loop and the      *)
(*               object URLs, from any list the application holds between  *)
(*               batch runs.                                               *)
(***************************************************************************)
EXTENDS Integers, Sequences, FiniteSets, TLC

(***************************************************************************)
(* Bounds and constants                                                    *)
(***************************************************************************)
\* MAX_FILES is imported from ./constants (App.tsx:14); the limit is a fixed
\* positive number, taken small here.
MAX_FILES == 2
\* size of the space Math.random().toString(36).substr(2, 9) draws ids from
NumIds == 2
\* longest FileList handed to handleFiles
MaxIncoming == 2

Ids == 1..NumIds

NoValue == "undefined"

IDLE == "IDLE"
PROCESSING == "PROCESSING"
COMPLETED == "COMPLETED"
ERROR == "ERROR"
ProcessingStatus == {IDLE, PROCESSING, COMPLETED, ERROR}

\* UpscaleFactor.X4, DpiOutput.DPI_300
DEFAULT_SETTINGS ==
  [upscaleFactor |-> 4, dpi |-> 300, preserveStyle |-> TRUE, enabled |-> TRUE]

\* The partial updates the SettingsPanel controls send (one field each);
\* the sample taken here is the 2x button of the upscale-factor row.
Deltas == {[upscaleFactor |-> 2]}

\* The files a user can offer: File objects with a MIME type and a name.
\* A name is the sequence of its dot-separated parts: <<"a", "png">> is a.png.
FilePool ==
  { [type |-> "image/png", name |-> <<"a", "png">>, w |-> 2, h |-> 1],
    [type |-> "text/plain", name |-> <<"n", "txt">>, w |-> 0, h |-> 0] }

\* FileList values: the sequences over FilePool of length 0..MaxIncoming.
FileLists == UNION {[1..n -> FilePool] : n \in 0..MaxIncoming}

VARIABLES
  files,             \* useState<ImageFile[]>: the item list
  globalSettings,    \* useState<ImageSettings>
  isProcessingBatch, \* useState(false)
  filesToProcess,    \* processBatch closure: the snapshot it iterates over
  cur,               \* processBatch closure: index of the awaited item, 0 if none
  outcomes,          \* results of the processImage calls of the current run
  probes,            \* img.onload callbacks not yet fired
  alerts,            \* alert() messages shown so far
  isZipping,         \* useState(false)
  zipRuns,           \* downloadAllZip closures in flight: snapshot and position
  bundle,            \* the last archive handed to the browser: <<>> or <<entries>>
  earlyReturns,      \* downloadAllZip has returned at its empty-selection check
  liveUrls,          \* number of preview object URLs created and not revoked
  isDragging,        \* useState(false)
  analyses,          \* ids whose analyzeImage call (ImageCard) has not settled
  isAnalyzing        \* ids of the mounted cards whose isAnalyzing is true

coreVars == <<files, globalSettings, isProcessingBatch, filesToProcess, cur,
              outcomes, probes, alerts>>
exportVars == <<isZipping, zipRuns, bundle, earlyReturns, liveUrls>>
vars == <<files, globalSettings, isProcessingBatch, filesToProcess, cur,
          outcomes, probes, alerts, isZipping, zipRuns, bundle, earlyReturns,
          liveUrls, isDragging, analyses, isAnalyzing>>
analysisVars == <<analyses, isAnalyzing>>

\* What each specification leaves as it is, handler by handler.
specHidden == <<exportVars, isDragging, analysisVars>>
exportHidden == <<isDragging, analysisVars>>
inputsHidden == <<exportVars, analysisVars>>
asyncHidden == <<exportVars, isDragging>>

(***************************************************************************)
(* Helpers                                                                 *)
(***************************************************************************)
\* { ...s, ...d }: object spread of a Partial<ImageSettings> over settings
Merge(s, d) == [k \in DOMAIN s |-> IF k \in DOMAIN d THEN d[k] ELSE s[k]]

\* file.type.startsWith('image/')
IsImage(file) == file.type \in {"image/png", "image/jpeg", "image/webp", "image/gif"}

ValidFiles(newFiles) == SelectSeq(newFiles, IsImage)

\* files.length + validFiles.length > MAX_FILES
ExceedsCapacity_OffByOne(n, k) == n + k > MAX_FILES + 1
ExceedsCapacity_IgnoresIncoming(n, k) == n > MAX_FILES
ExceedsCapacity(n, k) == n + k > MAX_FILES

NewItem(id, file, settings) ==
  [id |-> id, file |-> file, status |-> IDLE, settings |-> settings,
   width |-> 0, height |-> 0, processedUrl |-> NoValue, error |-> NoValue,
   analysis |-> NoValue]

SetStatus(f, s) == [f EXCEPT !.status = s]
SetCompleted_Rebuild(f) ==
  [NewItem(f.id, f.file, f.settings) EXCEPT
     !.status = COMPLETED, !.processedUrl = "blob:result"]
SetCompleted(f) == [f EXCEPT !.status = COMPLETED, !.processedUrl = "blob:result"]
SetError(f) == [f EXCEPT !.status = ERROR, !.error = "Processing failed"]

\* f.status === ProcessingStatus.IDLE || f.status === ProcessingStatus.ERROR
Eligible(f) == f.status \in {IDLE, ERROR}

\* f.status === ProcessingStatus.IDLE (updateGlobalSettings)
IsIdle_NotProcessing(f) == f.status # PROCESSING
IsIdle(f) == f.status = IDLE

\* What the loop of processBatch reads of a captured item: its id, and the
\* settings that processImage(file, ...) receives with it.
Captured(f) == [id |-> f.id, settings |-> f.settings]

(***************************************************************************)
(* Init                                                                    *)
(***************************************************************************)
Init ==
  /\ files = <<>>
  /\ globalSettings = DEFAULT_SETTINGS
  /\ isProcessingBatch = FALSE
  /\ filesToProcess = <<>>
  /\ cur = 0
  /\ outcomes = <<>>
  /\ probes = {}
  /\ alerts = {}
  /\ isZipping = FALSE
  /\ zipRuns = <<>>
  /\ bundle = <<>>
  /\ earlyReturns = FALSE
  /\ liveUrls = 0
  /\ isDragging = FALSE
  /\ analyses = {}
  /\ isAnalyzing = {}

(***************************************************************************)
(* handleFiles (file picker / drop)                                        *)
(***************************************************************************)
HandleFiles(newFiles) ==
  LET validFiles == ValidFiles(newFiles) IN
  IF ExceedsCapacity(Len(files), Len(validFiles))
  THEN /\ alerts' = alerts \cup {"capacity"}
       /\ UNCHANGED <<files, globalSettings, isProcessingBatch, filesToProcess,
                      cur, outcomes, probes>>
  ELSE \E ids \in [1..Len(validFiles) -> Ids] :
         LET processedFiles ==
               [i \in 1..Len(validFiles) |->
                  NewItem(ids[i], validFiles[i], globalSettings)]
         IN /\ files' = files \o processedFiles
            /\ probes' = probes \cup
                 {[id |-> ids[i], w |-> validFiles[i].w, h |-> validFiles[i].h] :
                    i \in 1..Len(validFiles)}
            /\ UNCHANGED <<globalSettings, isProcessingBatch, filesToProcess,
                           cur, outcomes, alerts>>

\* img.onload of a dimension probe
ImgOnload(p) ==
  /\ p \in probes
  /\ probes' = probes \ {p}
  /\ files' = [i \in 1..Len(files) |->
                 IF files[i].id = p.id
                 THEN [files[i] EXCEPT !.width = p.w, !.height = p.h]
                 ELSE files[i]]
  /\ UNCHANGED <<globalSettings, isProcessingBatch, filesToProcess, cur,
                 outcomes, alerts>>

(***************************************************************************)
(* Settings                                                                *)
(***************************************************************************)
UpdateGlobalSettings(newSettings) ==
  /\ Len(files) > 0   \* the SettingsPanel is rendered only for a non-empty list
  /\ globalSettings' = Merge(globalSettings, newSettings)
  /\ files' = [i \in 1..Len(files) |->
                 IF IsIdle(files[i])
                 THEN [files[i] EXCEPT !.settings = Merge(files[i].settings, newSettings)]
                 ELSE files[i]]
  /\ UNCHANGED <<isProcessingBatch, filesToProcess, cur, outcomes, probes, alerts>>

(***************************************************************************)
(* Removal                                                                 *)
(***************************************************************************)
\* ImageCard remove button (disabled while the card's image is PROCESSING)
RemoveFile(i) ==
  /\ i \in 1..Len(files)
  /\ files[i].status # PROCESSING
  /\ files' = SelectSeq(files, LAMBDA f : f.id # files[i].id)
  /\ UNCHANGED <<globalSettings, isProcessingBatch, filesToProcess, cur,
                 outcomes, probes, alerts>>

\* 'Clear All' button, confirm() answered with OK
ClearAll ==
  /\ Len(files) > 0
  /\ files' = <<>>
  /\ UNCHANGED <<globalSettings, isProcessingBatch, filesToProcess, cur,
                 outcomes, probes, alerts>>

(***************************************************************************)
(* processBatch                                                            *)
(***************************************************************************)
\* The part of the loop body that runs before `await processImage(file)`.
StartItem(fs, file) ==
  [i \in 1..Len(fs) |->
     IF fs[i].id = file.id THEN SetStatus(fs[i], PROCESSING) ELSE fs[i]]

\* 'Upscale All' click: processBatch up to its first await.  The button is
\* disabled while isProcessingBatch or when every item is COMPLETED.  With
\* nothing eligible the loop body never runs and the flag is reset at once.
ProcessBatch ==
  /\ ~isProcessingBatch
  /\ ~(\A i \in 1..Len(files) : files[i].status = COMPLETED)
  /\ LET eligible == SelectSeq(files, Eligible)
         snapshot == [i \in 1..Len(eligible) |-> Captured(eligible[i])]
     IN /\ isProcessingBatch' = (Len(snapshot) > 0)
        /\ filesToProcess' = snapshot
        /\ cur' = IF Len(snapshot) > 0 THEN 1 ELSE 0
        /\ files' = IF Len(snapshot) > 0 THEN StartItem(files, snapshot[1]) ELSE files
  /\ outcomes' = <<>>
  /\ UNCHANGED <<globalSettings, probes, alerts>>

\* Continuation after the awaited processImage settled: record the result,
\* then either start the next item or leave the loop.
\* The update made once processImage settled: the try branch on "ok", the
\* catch branch on "fail".
FinishItem_NoCatch(fs, file, result) ==
  [i \in 1..Len(fs) |->
     IF fs[i].id = file.id /\ result = "ok" THEN SetCompleted(fs[i]) ELSE fs[i]]
FinishItem(fs, file, result) ==
  [i \in 1..Len(fs) |->
     IF fs[i].id = file.id
     THEN IF result = "ok" THEN SetCompleted(fs[i]) ELSE SetError(fs[i])
     ELSE fs[i]]

Continue(result) ==
  /\ isProcessingBatch
  /\ cur \in 1..Len(filesToProcess)
  /\ outcomes' = Append(outcomes, result)
  /\ LET file == filesToProcess[cur]
         done == FinishItem(files, file, result)
     IN IF cur < Len(filesToProcess)
        THEN /\ files' = StartItem(done, filesToProcess[cur + 1])
             /\ cur' = cur + 1
             /\ UNCHANGED <<isProcessingBatch, filesToProcess>>
        ELSE /\ files' = done
             /\ cur' = 0
             /\ filesToProcess' = <<>>
             /\ isProcessingBatch' = FALSE
  /\ UNCHANGED <<globalSettings, probes, alerts>>

ProcessImageResolves == Continue("ok")
ProcessImageRejects == Continue("fail")

(***************************************************************************)
(* Export: downloadAllZip and the Save ZIP button                          *)
(***************************************************************************)
\* completedFiles keeps items that are COMPLETED and have a processedUrl.
ExportEligible(f) == f.status = COMPLETED /\ f.processedUrl # NoValue

\* What the loop reads of an item of the snapshot.
ZipCaptured(f) == [originalName |-> f.file.name, processedUrl |-> f.processedUrl]

\* originalName.replace(/\.[^/.]+$/, ""): drops the last dot and what follows
\* it when at least one character follows it.
StripExtension(name) ==
  IF Len(name) > 1 /\ name[Len(name)] # ""
  THEN SubSeq(name, 1, Len(name) - 1)
  ELSE name

\* `${nameWithoutExt}_UPSCALED.png`
EntryName(originalName) ==
  [stem |-> StripExtension(originalName), suffix |-> "_UPSCALED.png"]

\* zip.file(name, blob) of JSZip: an entry of that name is replaced.  The zip
\* of a run holds the entries of the items whose bytes have been fetched.
ZipEntries(run) ==
  {EntryName(run.completedFiles[j].originalName) : j \in 1..(run.pos - 1)}

\* if (completedFiles.length === 0) return;
NothingToExport_Never(completedFiles) == FALSE
NothingToExport(completedFiles) == Len(completedFiles) = 0

\* The catch block downloads nothing: the bundle the browser last received
\* stays what it was.
BundleAfterFailure_Partial(b, run) == <<ZipEntries(run)>>
BundleAfterFailure(b, run) == b

\* The button is rendered while some item is COMPLETED and disabled while
\* isZipping.
SaveZipRendered == \E i \in 1..Len(files) : files[i].status = COMPLETED
SaveZipDisabled_Never == FALSE
SaveZipDisabled == isZipping

\* downloadAllZip up to its first await: the snapshot, the early return,
\* setIsZipping(true) and the fetch of the first item's bytes.
DownloadAllZip ==
  LET completedFiles == SelectSeq(files, ExportEligible)
  IN /\ IF NothingToExport(completedFiles)
        THEN /\ earlyReturns' = TRUE
             /\ UNCHANGED <<isZipping, zipRuns>>
        ELSE /\ isZipping' = TRUE
             /\ zipRuns' = Append(zipRuns,
                  [completedFiles |->
                     [j \in 1..Len(completedFiles) |-> ZipCaptured(completedFiles[j])],
                   pos |-> 1])
             /\ UNCHANGED earlyReturns
     /\ UNCHANGED <<bundle, liveUrls>>
     /\ UNCHANGED coreVars

\* A click on Save ZIP.
SaveZipClick == SaveZipRendered /\ ~SaveZipDisabled /\ DownloadAllZip

\* downloadAllZip applied to a list for which the button is not rendered.
ExportCall == ~SaveZipRendered /\ DownloadAllZip

RemoveRun(r) == [j \in 1..(Len(zipRuns) - 1) |-> IF j < r THEN zipRuns[j] ELSE zipRuns[j + 1]]

\* fetch(file.processedUrl).then(r => r.blob()) resolves: the entry is added
\* and the loop awaits the next item, or generateAsync after the last one.
ZipFetchResolves(r) ==
  /\ r \in 1..Len(zipRuns)
  /\ zipRuns[r].pos <= Len(zipRuns[r].completedFiles)
  /\ zipRuns' = [zipRuns EXCEPT ![r].pos = @ + 1]
  /\ UNCHANGED <<isZipping, bundle, earlyReturns, liveUrls>>
  /\ UNCHANGED coreVars

\* zip.generateAsync resolves: the archive gets an object URL, is downloaded
\* through a temporary link, the URL is revoked, and finally isZipping is reset.
ZipGenerateResolves(r) ==
  /\ r \in 1..Len(zipRuns)
  /\ zipRuns[r].pos = Len(zipRuns[r].completedFiles) + 1
  /\ bundle' = <<ZipEntries(zipRuns[r])>>
  /\ zipRuns' = RemoveRun(r)
  /\ isZipping' = FALSE
  /\ UNCHANGED <<earlyReturns, liveUrls>>
  /\ UNCHANGED coreVars

\* An awaited promise (a fetch, or generateAsync) rejects: catch reports the
\* failure, finally resets isZipping.
ZipAwaitRejects(r) ==
  /\ r \in 1..Len(zipRuns)
  /\ bundle' = BundleAfterFailure(bundle, zipRuns[r])
  /\ alerts' = alerts \cup {"zip"}
  /\ zipRuns' = RemoveRun(r)
  /\ isZipping' = FALSE
  /\ UNCHANGED <<earlyReturns, liveUrls>>
  /\ UNCHANGED <<files, globalSettings, isProcessingBatch, filesToProcess, cur,
                 outcomes, probes>>

\* Files behind the items of the lists SpecExport starts from.
ExportFiles ==
  { [type |-> "image/png", name |-> <<"a", "png">>, w |-> 2, h |-> 1],
    [type |-> "image/jpeg", name |-> <<"a", "jpg">>, w |-> 2, h |-> 1],
    [type |-> "image/png", name |-> <<"b", "png">>, w |-> 1, h |-> 1] }

\* An item as the handlers leave it once no batch is running: probed, and
\* IDLE, COMPLETED with its output, or ERROR with its message.
SettledItem(id, file, status) ==
  [NewItem(id, file, DEFAULT_SETTINGS) EXCEPT
     !.width = file.w, !.height = file.h, !.status = status,
     !.processedUrl = IF status = COMPLETED THEN "blob:result" ELSE NoValue,
     !.error = IF status = ERROR THEN "Processing failed" ELSE NoValue]

SettledLists ==
  UNION { { [i \in 1..n |-> SettledItem(i, fl[i], st[i])] :
              fl \in [1..n -> ExportFiles], st \in [1..n -> {IDLE, COMPLETED, ERROR}] }
          : n \in 0..MAX_FILES }

\* SpecExport starts from any list the application can hold between batch
\* runs; each item holds the preview URL made for it at submission.  The
\* export handlers, the two removals and the batch loop act on it; removeFile
\* and Clear All call no URL.revokeObjectURL, so liveUrls stays as it is in
\* them.
InitExport ==
  /\ files \in SettledLists
  /\ globalSettings = DEFAULT_SETTINGS
  /\ isProcessingBatch = FALSE
  /\ filesToProcess = <<>>
  /\ cur = 0
  /\ outcomes = <<>>
  /\ probes = {}
  /\ alerts = {}
  /\ isZipping = FALSE
  /\ zipRuns = <<>>
  /\ bundle = <<>>
  /\ earlyReturns = FALSE
  /\ liveUrls = Len(files)
  /\ isDragging = FALSE
  /\ analyses = {}
  /\ isAnalyzing = {}

NextExport ==
  \/ SaveZipClick /\ UNCHANGED exportHidden
  \/ ExportCall /\ UNCHANGED exportHidden
  \/ (\E r \in 1..Len(zipRuns) : ZipFetchResolves(r)) /\ UNCHANGED exportHidden
  \/ (\E r \in 1..Len(zipRuns) : ZipGenerateResolves(r)) /\ UNCHANGED exportHidden
  \/ (\E r \in 1..Len(zipRuns) : ZipAwaitRejects(r)) /\ UNCHANGED exportHidden
  \/ (\E i \in 1..Len(files) : RemoveFile(i)) /\ UNCHANGED <<exportVars, exportHidden>>
  \/ ClearAll /\ UNCHANGED <<exportVars, exportHidden>>
  \/ ProcessBatch /\ UNCHANGED <<exportVars, exportHidden>>
  \/ ProcessImageResolves /\ UNCHANGED <<exportVars, exportHidden>>
  \/ ProcessImageRejects /\ UNCHANGED <<exportVars, exportHidden>>

SpecExport == InitExport /\ [][NextExport]_vars

(***************************************************************************)
(* Analysis: ImageCard.handleMagicAnalyze and updateFileAnalysis           *)
(***************************************************************************)
\* updateFileAnalysis: prev.map(f => f.id === id ? { ...f, analysis } : f)
UpdateFileAnalysis_Upsert(fs, id, analysis) ==
  IF \E i \in 1..Len(fs) : fs[i].id = id
  THEN [i \in 1..Len(fs) |->
          IF fs[i].id = id THEN [fs[i] EXCEPT !.analysis = analysis] ELSE fs[i]]
  ELSE Append(fs, [id |-> id, analysis |-> analysis])
UpdateFileAnalysis(fs, id, analysis) ==
  [i \in 1..Len(fs) |->
     IF fs[i].id = id THEN [fs[i] EXCEPT !.analysis = analysis] ELSE fs[i]]

\* The cards of the items of fs: a card is keyed by its item's id and its
\* state goes when no item of that id is listed any more.
Mounted(cards, fs) == {id \in cards : \E i \in 1..Len(fs) : fs[i].id = id}

\* 'Check Quality' on card i: shown while the item has no analysis and is
\* neither COMPLETED nor PROCESSING, disabled while the card is analyzing.
HandleMagicAnalyze(i) ==
  /\ i \in 1..Len(files)
  /\ files[i].analysis = NoValue
  /\ files[i].status \notin {COMPLETED, PROCESSING}
  /\ files[i].id \notin isAnalyzing
  /\ isAnalyzing' = isAnalyzing \cup {files[i].id}
  /\ analyses' = analyses \cup {files[i].id}
  /\ UNCHANGED coreVars

\* analyzeImage resolves: onAnalyze(image.id, result); setIsAnalyzing(false).
\* The service answers with a text also when it could not analyse the image.
AnalyzeImageResolves(id) ==
  /\ id \in analyses
  /\ files' = UpdateFileAnalysis(files, id, "text")
  /\ analyses' = analyses \ {id}
  /\ isAnalyzing' = isAnalyzing \ {id}
  /\ UNCHANGED <<globalSettings, isProcessingBatch, filesToProcess, cur,
                 outcomes, probes, alerts>>

\* Submissions of image files only: a file that is no image is dropped by the
\* filter and leaves the state the list without it leaves.
ImageLists == {newFiles \in FileLists : ValidFiles(newFiles) = newFiles}

\* SpecAsync follows every asynchronous result against removals: the
\* dimension probes, the batch loop and the analysis calls.
NextAsync ==
  \/ (\E newFiles \in ImageLists : HandleFiles(newFiles))
       /\ UNCHANGED <<analysisVars, asyncHidden>>
  \/ (\E p \in probes : ImgOnload(p)) /\ UNCHANGED <<analysisVars, asyncHidden>>
  \/ (\E i \in 1..Len(files) : RemoveFile(i))
       /\ isAnalyzing' = Mounted(isAnalyzing, files')
       /\ UNCHANGED <<analyses, asyncHidden>>
  \/ ClearAll
       /\ isAnalyzing' = Mounted(isAnalyzing, files')
       /\ UNCHANGED <<analyses, asyncHidden>>
  \/ ProcessBatch /\ UNCHANGED <<analysisVars, asyncHidden>>
  \/ ProcessImageResolves /\ UNCHANGED <<analysisVars, asyncHidden>>
  \/ ProcessImageRejects /\ UNCHANGED <<analysisVars, asyncHidden>>
  \/ (\E i \in 1..Len(files) : HandleMagicAnalyze(i)) /\ UNCHANGED asyncHidden
  \/ (\E id \in analyses : AnalyzeImageResolves(id)) /\ UNCHANGED asyncHidden

SpecAsync == Init /\ [][NextAsync]_vars

\* SpecUpdates follows every handler that writes an item, on a list that
\* only grows: submission, the dimension probes, the settings updates, the
\* batch loop and the analysis calls.
NextUpdates ==
  \/ (\E newFiles \in ImageLists : HandleFiles(newFiles))
       /\ UNCHANGED <<analysisVars, asyncHidden>>
  \/ (\E p \in probes : ImgOnload(p)) /\ UNCHANGED <<analysisVars, asyncHidden>>
  \/ (\E d \in Deltas : UpdateGlobalSettings(d)) /\ UNCHANGED specHidden
  \/ ProcessBatch /\ UNCHANGED <<analysisVars, asyncHidden>>
  \/ ProcessImageResolves /\ UNCHANGED <<analysisVars, asyncHidden>>
  \/ ProcessImageRejects /\ UNCHANGED <<analysisVars, asyncHidden>>
  \/ (\E i \in 1..Len(files) : HandleMagicAnalyze(i)) /\ UNCHANGED asyncHidden
  \/ (\E id \in analyses : AnalyzeImageResolves(id)) /\ UNCHANGED asyncHidden

SpecUpdates == Init /\ [][NextUpdates]_vars

(***************************************************************************)
(* Submission paths and settings values                                    *)
(***************************************************************************)
\* Files of the types a user can hand over: an accepted type, another image
\* type, and a type that is no image.
TypedFiles ==
  { [type |-> "image/png", name |-> <<"a", "png">>, w |-> 2, h |-> 1],
    [type |-> "image/gif", name |-> <<"a", "gif">>, w |-> 2, h |-> 1],
    [type |-> "text/plain", name |-> <<"n", "txt">>, w |-> 0, h |-> 0] }

TypedFileLists == UNION {[1..n -> TypedFiles] : n \in 0..MaxIncoming}

\* The types the file input names in its accept attribute.
AcceptedTypes == {"image/png", "image/jpeg", "image/webp"}

\* updateGlobalSettings takes any Partial<ImageSettings>.
PartialSettings == Deltas \cup {[enabled |-> FALSE]}

\* onDragOver and onDragLeave of the drop zone, shown while the list is empty.
DragOver ==
  /\ Len(files) = 0
  /\ isDragging' = TRUE
  /\ UNCHANGED coreVars

DragLeave ==
  /\ Len(files) = 0
  /\ isDragging' = FALSE
  /\ UNCHANGED coreVars

\* handleDrop: setIsDragging(false); handleFiles(e.dataTransfer.files)
HandleDrop(newFiles) ==
  /\ Len(files) = 0
  /\ isDragging' = FALSE
  /\ HandleFiles(newFiles)

\* onChange of the file input: handleFiles(e.target.files).  The accept
\* attribute filters what the dialog offers, not what the user may choose.
PickFiles(newFiles) ==
  /\ HandleFiles(newFiles)
  /\ UNCHANGED isDragging

\* SpecInputs follows submission by both paths with files of any type, and
\* settings updates with any value the handler's parameter admits.
NextInputs ==
  \/ (\E newFiles \in TypedFileLists : HandleDrop(newFiles)) /\ UNCHANGED inputsHidden
  \/ (\E newFiles \in TypedFileLists : PickFiles(newFiles)) /\ UNCHANGED inputsHidden
  \/ DragOver /\ UNCHANGED inputsHidden
  \/ DragLeave /\ UNCHANGED inputsHidden
  \/ (\E d \in PartialSettings : UpdateGlobalSettings(d)) /\ UNCHANGED specHidden
  \/ ClearAll /\ UNCHANGED specHidden
  \/ ProcessBatch /\ UNCHANGED specHidden
  \/ ProcessImageResolves /\ UNCHANGED specHidden
  \/ ProcessImageRejects /\ UNCHANGED specHidden

SpecInputs == Init /\ [][NextInputs]_vars

(***************************************************************************)
(* Specification                                                           *)
(***************************************************************************)
\* Spec follows the item list and the batch loop.  The export and the
\* object-URL registry are followed by SpecExport; no handler below reads
\* their variables, which stay as they are here.
Next ==
  \/ (\E newFiles \in FileLists : HandleFiles(newFiles)) /\ UNCHANGED specHidden
  \/ (\E p \in probes : ImgOnload(p)) /\ UNCHANGED specHidden
  \/ (\E d \in Deltas : UpdateGlobalSettings(d)) /\ UNCHANGED specHidden
  \/ (\E i \in 1..Len(files) : RemoveFile(i)) /\ UNCHANGED specHidden
  \/ ClearAll /\ UNCHANGED specHidden
  \/ ProcessBatch /\ UNCHANGED specHidden
  \/ ProcessImageResolves /\ UNCHANGED specHidden
  \/ ProcessImageRejects /\ UNCHANGED specHidden

Spec == Init /\ [][Next]_vars

\* Every processImage call settles: the promise awaited by the loop is
\* resolved or rejected at some time, whatever the user does meanwhile.
ProcessImageSettles ==
  (ProcessImageResolves \/ ProcessImageRejects) /\ UNCHANGED specHidden

SpecLive == Spec /\ WF_vars(ProcessImageSettles)

TypeOK ==
  /\ \A i \in 1..Len(files) : files[i].status \in ProcessingStatus
  /\ isProcessingBatch \in BOOLEAN
  /\ cur \in 0..Len(filesToProcess)
  /\ isProcessingBatch <=> cur > 0

(***************************************************************************)
(* Properties                                                              *)
(***************************************************************************)
Indices(fs) == 1..Len(fs)
WithStatus(fs, st) == {i \in Indices(fs) : fs[i].status = st}
\* the items of the list that a run over snapshot `q` addresses
RunItems(fs, q) == {i \in Indices(fs) : \E j \in 1..Len(q) : q[j].id = fs[i].id}
Rejections(o) == {j \in 1..Len(o) : o[j] = "fail"}

\* C1: in every reachable state at most one item of the list has status
\* PROCESSING.
C1_AtMostOneProcessing == Cardinality(WithStatus(files, PROCESSING)) <= 1

\* C2: failure isolation: when a batch run over N items, all still listed,
\* finishes and processImage rejected for exactly one of them, exactly N-1
\* of those items are COMPLETED and exactly one is ERROR.
C2_FailureIsolation ==
  [][ ( /\ isProcessingBatch /\ ~isProcessingBatch'
        /\ Cardinality(Rejections(outcomes')) = 1
        /\ Cardinality(RunItems(files', filesToProcess)) = Len(filesToProcess) )
      => LET run == RunItems(files', filesToProcess) IN
         /\ Cardinality(run \cap WithStatus(files', COMPLETED)) = Len(filesToProcess) - 1
         /\ Cardinality(run \cap WithStatus(files', ERROR)) = 1 ]_vars

\* C3: every change of an item's status is IDLE->PROCESSING,
\* PROCESSING->COMPLETED, PROCESSING->ERROR or ERROR->PROCESSING.
AllowedChanges ==
  { <<IDLE, PROCESSING>>, <<PROCESSING, COMPLETED>>,
    <<PROCESSING, ERROR>>, <<ERROR, PROCESSING>> }
C3_StatusChanges ==
  [][ Len(files') >= Len(files) =>
        \A i \in Indices(files) :
           \/ files'[i].status = files[i].status
           \/ <<files[i].status, files'[i].status>> \in AllowedChanges ]_vars

\* C4: an item has an output (processedUrl) if and only if its status is
\* COMPLETED.
C4_OutputIffCompleted ==
  \A i \in Indices(files) :
     (files[i].processedUrl # NoValue) <=> (files[i].status = COMPLETED)

\* C5: settings propagation: updateGlobalSettings(delta) applies each field
\* of delta to the global defaults and to every IDLE item, leaves their other
\* setting fields alone, and leaves the settings of every PROCESSING,
\* COMPLETED or ERROR item exactly as they were.
Applied(new, old, d) ==
  /\ DOMAIN new = DOMAIN old
  /\ \A k \in DOMAIN d : new[k] = d[k]
  /\ \A k \in DOMAIN old \ DOMAIN d : new[k] = old[k]
C5_SettingsPropagation ==
  [][ \A d \in Deltas : UpdateGlobalSettings(d) =>
        /\ Applied(globalSettings', globalSettings, d)
        /\ Len(files') = Len(files)
        /\ \A i \in Indices(files) :
             IF files[i].status = IDLE
             THEN Applied(files'[i].settings, files[i].settings, d)
             ELSE files'[i].settings = files[i].settings ]_vars
\* an update has reached an IDLE item and passed over a COMPLETED one
C5_Witness ==
  /\ globalSettings # DEFAULT_SETTINGS
  /\ \E i \in Indices(files) :
       files[i].status = IDLE /\ files[i].settings = globalSettings
  /\ \E i \in Indices(files) :
       files[i].status = COMPLETED /\ files[i].settings = DEFAULT_SETTINGS

\* C6: the settings an item is processed with are the settings it has in the
\* item list at the moment it becomes PROCESSING.
C6_ProcessedWithCurrentSettings ==
  [][ (cur' # cur /\ cur' > 0) =>
        \A i \in Indices(files') :
           files'[i].id = filesToProcess'[cur'].id =>
              files'[i].settings = filesToProcess'[cur'].settings ]_vars

\* C7: capacity rejection is all-or-nothing: when the items present plus the
\* admissible incoming files exceed MAX_FILES, handleFiles leaves the item
\* list unchanged: no step that changes the list is such a call.
C7_RejectionAllOrNothing ==
  [][ files' # files =>
        \A newFiles \in FileLists :
           Len(files) + Len(ValidFiles(newFiles)) > MAX_FILES
             => ~HandleFiles(newFiles) ]_vars
\* a submission has been rejected and the list is full
C7_Witness == "capacity" \in alerts /\ Len(files) = MAX_FILES

C9_IdsUnique ==
  \A i, j \in Indices(files) : files[i].id = files[j].id => i = j

\* C10: no item is removed from the list while its status is PROCESSING.
C10_NoRemovalWhileProcessing ==
  [][ Len(files') < Len(files) =>
        \A i \in WithStatus(files, PROCESSING) :
           \E j \in Indices(files') : files'[j] = files[i] ]_vars

(***************************************************************************)
(* Export                                                                  *)
(***************************************************************************)
\* C11: when no item of the list is COMPLETED with an output, downloadAllZip
\* returns at once: it hands no bundle to the browser, reports no error,
\* does not set isZipping (no run is started) and leaves the list as it is.
C11_ExportNoOp ==
  [][ (SelectSeq(files, ExportEligible) = <<>> /\ DownloadAllZip)
        => /\ earlyReturns'
           /\ bundle' = bundle
           /\ alerts' = alerts
           /\ isZipping' = isZipping
           /\ zipRuns' = zipRuns
           /\ files' = files ]_vars

\* The handler has returned early on a non-empty list, and nothing shows.
C11_Witness ==
  /\ earlyReturns
  /\ Len(files) > 0
  /\ ~isZipping
  /\ bundle = <<>>
  /\ alerts = {}

\* C12: when the fetch of an item's bytes fails during downloadAllZip, no
\* bundle is handed to the browser (the entries already fetched are dropped),
\* the failure is reported, every item keeps its status and output, and
\* isZipping is false again, so that the button accepts a new click.
C12_ExportFailureAtomic ==
  [][ \A r \in 1..Len(zipRuns) :
        (zipRuns[r].pos <= Len(zipRuns[r].completedFiles) /\ ZipAwaitRejects(r))
          => /\ bundle' = bundle
             /\ "zip" \in alerts'
             /\ files' = files
             /\ ~isZipping'
             /\ zipRuns' = <<>>
             /\ ~SaveZipDisabled' ]_vars

\* An export has failed: reported, nothing downloaded, the flag is down and
\* the items that were to be exported are still COMPLETED with their output.
C12_Witness ==
  /\ "zip" \in alerts
  /\ bundle = <<>>
  /\ ~isZipping
  /\ Len(SelectSeq(files, ExportEligible)) = MAX_FILES

\* C13: an export that succeeds hands the browser one bundle holding exactly
\* one entry per exported item, named <stem>_UPSCALED.png after the item's
\* name without its extension: k exported items give k entries, also when
\* two of them have names with the same stem.
C13_OneEntryPerItem ==
  [][ \A r \in 1..Len(zipRuns) :
        ZipGenerateResolves(r)
          => LET completedFiles == zipRuns[r].completedFiles
             IN /\ Len(bundle') = 1
                /\ Cardinality(bundle'[1]) = Len(completedFiles)
                /\ \A j \in 1..Len(completedFiles) :
                     EntryName(completedFiles[j].originalName) \in bundle'[1] ]_vars

\* C14: at most one export is in flight: while a downloadAllZip call has set
\* isZipping and has not finished, no second call builds a bundle, and
\* isZipping is up exactly while a call is in flight.
C14_OneExportInFlight ==
  /\ Len(zipRuns) <= 1
  /\ isZipping <=> Len(zipRuns) = 1

\* An export is past its first fetch while the list still shows COMPLETED
\* items with an output: the button is rendered, and disabled.
C14_Witness ==
  /\ Len(zipRuns) = 1
  /\ zipRuns[1].pos > 1
  /\ SaveZipRendered
  /\ SaveZipDisabled
  /\ SelectSeq(files, ExportEligible) # <<>>

(***************************************************************************)
(* Object URLs                                                             *)
(***************************************************************************)
\* C15: every live preview URL belongs to an item that is still in the list:
\* removing an item, by its remove button or by Clear All, releases the URL
\* made for it at submission, so no more URLs are live than items are listed.
C15_UrlsOwnedByListedItems == liveUrls <= Len(files)

C17_OnlyAcceptedTypes ==
  \A i \in Indices(files) : files[i].file.type \in AcceptedTypes

(***************************************************************************)
(* Batch order                                                             *)
(***************************************************************************)
\* C18: a batch run takes the items that are IDLE or ERROR when it starts,
\* in list order, and moves them to PROCESSING one at a time: an item is
\* moved to PROCESSING only from IDLE or ERROR (never from COMPLETED), only
\* as the next entry of the run, and only when every listed item of an
\* earlier entry of the run is COMPLETED or ERROR.
C18_BatchOrder ==
  [][ /\ ProcessBatch =>
           [j \in 1..Len(filesToProcess') |-> filesToProcess'[j].id]
             = [j \in 1..Len(SelectSeq(files, Eligible)) |-> SelectSeq(files, Eligible)[j].id]
      /\ \A i \in Indices(files) :
           ( /\ Len(files') = Len(files)
             /\ files[i].status # PROCESSING
             /\ files'[i].status = PROCESSING )
           => /\ files[i].status \in {IDLE, ERROR}
              /\ cur' = cur + 1
              /\ files[i].id = filesToProcess'[cur'].id
              /\ \A k \in Indices(files'), j \in 1..(cur' - 1) :
                   files'[k].id = filesToProcess'[j].id
                     => files'[k].status \in {COMPLETED, ERROR} ]_vars

(***************************************************************************)
(* Late results                                                            *)
(***************************************************************************)
Listed(fs, id) == \E i \in Indices(fs) : fs[i].id = id

\* C19: a result that arrives for an id no longer in the list is dropped.
\* A dimension probe or an analysis result for such an id leaves the list as
\* it is.  A processing result for such an id recreates no item and changes
\* no item, except that the run goes on: it marks its next entry PROCESSING,
\* or ends when there is none.
C19_LateResultsDiscarded ==
  [][ /\ \A p \in probes : (~Listed(files, p.id) /\ ImgOnload(p)) => files' = files
      /\ \A id \in analyses :
           (~Listed(files, id) /\ AnalyzeImageResolves(id)) => files' = files
      /\ ( /\ cur \in 1..Len(filesToProcess)
           /\ ~Listed(files, filesToProcess[cur].id)
           /\ (ProcessImageResolves \/ ProcessImageRejects) )
         => /\ Len(files') = Len(files)
            /\ \A i \in Indices(files) :
                 \/ files'[i] = files[i]
                 \/ /\ cur < Len(filesToProcess)
                    /\ files[i].id = filesToProcess[cur + 1].id
                    /\ files'[i] = [files[i] EXCEPT !.status = PROCESSING]
            /\ IF cur < Len(filesToProcess)
               THEN isProcessingBatch' /\ cur' = cur + 1
               ELSE ~isProcessingBatch' ]_vars

\* A probe, an analysis and a processing call are all pending for ids that
\* are not in the list, which holds another item.
C19_Witness ==
  /\ Len(files) > 0
  /\ \E p \in probes : ~Listed(files, p.id)
  /\ \E id \in analyses : ~Listed(files, id)
  /\ isProcessingBatch
  /\ cur \in 1..Len(filesToProcess)
  /\ ~Listed(files, filesToProcess[cur].id)

(***************************************************************************)
(* Termination                                                             *)
(***************************************************************************)
\* C20: PROCESSING is transient and a batch run ends.  When every
\* processImage call settles: no item is PROCESSING unless a run is under
\* way, and whenever a run is under way or an item is PROCESSING, a state
\* follows in which isProcessingBatch is false again (a new run can be
\* started) and no item of the list is PROCESSING.
C20_BatchTerminates ==
  /\ [](~isProcessingBatch => WithStatus(files, PROCESSING) = {})
  /\ (isProcessingBatch \/ WithStatus(files, PROCESSING) # {})
       ~> (~isProcessingBatch /\ WithStatus(files, PROCESSING) = {})

\* A run over a full list has ended, one item processed and one failed.
C20_Witness ==
  /\ ~isProcessingBatch
  /\ Len(outcomes) = MAX_FILES
  /\ WithStatus(files, COMPLETED) # {}
  /\ WithStatus(files, ERROR) # {}
  /\ WithStatus(files, PROCESSING) = {}

(***************************************************************************)
(* Error message                                                           *)
(***************************************************************************)
\* C22: an item carries an error message exactly when its last processing
\* attempt failed: its error field is set if and only if its status is ERROR.
C22_ErrorIffFailed ==
  \A i \in Indices(files) :
    (files[i].error # NoValue) <=> (files[i].status = ERROR)

(***************************************************************************)
(* Frame of the item updates                                               *)
(***************************************************************************)
\* new is old but for the fields named.
OnlyFields(old, new, named) ==
  /\ DOMAIN new = DOMAIN old
  /\ \A k \in DOMAIN old \ named : new[k] = old[k]

\* C21: every update of the list touches only the items of the id it was
\* given and only the fields it names, starting from the item's latest
\* state.  Submission leaves the listed items as they are; a probe writes
\* width and height, an analysis result writes analysis, a settings update
\* writes settings; starting a run writes status, a completion writes status
\* and processedUrl, a failure status and error, and a step of the run
\* changes only items of the entry that settled and of the entry it starts.
C21_UpdatesTouchOnlyNamedFields ==
  [][ /\ (\E newFiles \in ImageLists : HandleFiles(newFiles))
           => \A i \in Indices(files) : files'[i] = files[i]
      /\ \A p \in probes :
           ImgOnload(p)
             => \A i \in Indices(files) :
                  IF files[i].id = p.id
                  THEN OnlyFields(files[i], files'[i], {"width", "height"})
                  ELSE files'[i] = files[i]
      /\ \A id \in analyses :
           AnalyzeImageResolves(id)
             => \A i \in Indices(files) :
                  IF files[i].id = id
                  THEN OnlyFields(files[i], files'[i], {"analysis"})
                  ELSE files'[i] = files[i]
      /\ \A d \in Deltas :
           UpdateGlobalSettings(d)
             => \A i \in Indices(files) :
                  /\ OnlyFields(files[i], files'[i], {"settings"})
                  /\ OnlyFields(files[i].settings, files'[i].settings, DOMAIN d)
      /\ (ProcessBatch \/ ProcessImageResolves \/ ProcessImageRejects)
           => \A i \in Indices(files) :
                /\ OnlyFields(files[i], files'[i],
                     IF ProcessBatch THEN {"status"}
                     ELSE IF ProcessImageResolves THEN {"status", "processedUrl"}
                     ELSE {"status", "error"})
                /\ files'[i] # files[i]
                     => \/ cur > 0 /\ files[i].id = filesToProcess[cur].id
                        \/ cur' > 0 /\ files[i].id = filesToProcess'[cur'].id ]_vars

\* An item is PROCESSING with the settings of an update, while its probe and
\* its analysis are still to arrive and another item is listed.
C21_Witness ==
  \E i \in Indices(files) :
    /\ files[i].status = PROCESSING
    /\ files[i].settings # DEFAULT_SETTINGS
    /\ \E p \in probes : p.id = files[i].id
    /\ files[i].id \in analyses
    /\ files[i].analysis = NoValue
    /\ files[i].width = 0
    /\ Len(files) = MAX_FILES

====
